---- MODULE Spec2Model ----
(***************************************************************************)
(* Model of libafl-inline-c: the directive extraction, the compiler        *)
(* command construction and the build (`run`) of src/src/run.rs, the Run   *)
(* Handle's disposal of src/src/assert.rs, and the token reconstructor     *)
(* (`reconstruct`) of the macros of src/macros/src/lib.rs.                 *)
(*                                                                         *)
(* Text is a sequence of one-character strings, so that the regular        *)
(* expressions, `trim`, `split_ascii_whitespace`, `starts_with` and        *)
(* `contains` are computed character by character as the code does.        *)
(***************************************************************************)
EXTENDS Integers, Sequences, FiniteSets, TLC

VARIABLES
  penv,              \* the process environment: name -> value
  host,              \* target_lexicon::HOST
  program,           \* the program text given to `run`
  language,          \* the Language given to `run`
  pc,                \* where the caller stands
  cleaned,           \* the program text after the passes run so far
  variables,         \* the Variable Set (HashMap<String, String>)
  options,           \* the options (Vec<String>)
  fs,                \* the paths that exist on the filesystem
  created,           \* the temporary paths the build has created
  kept_input,        \* the persisted source file of the build, or NoPath
  kept_output,       \* the persisted output path of the build, or NoPath
  compiler_command,  \* the compiler Command as built by `run`
  compiler_spawns,   \* the number of calls of command.output()
  compiler_env,      \* the environment the compiler process got
  clang_output,      \* the Output of the compiler process
  result,            \* what `run` gave back
  handle,            \* the Run Handle (struct Assert of assert.rs)
  artifact_runs,     \* the runs of the artifact through the handle
  artifact_env,      \* the environment the last run of the artifact got
  obstructed,        \* the paths whose removal fails at disposal
  drop_failed_at,    \* the path whose removal made Drop panic, or NoPath
  tokens,            \* the TokenStream given to assert_c! / assert_cxx!
  cfg_nightly        \* whether the macros are compiled with cfg(nightly)

vars == <<penv, host, program, language, pc, cleaned, variables, options,
          fs, created, kept_input, kept_output, compiler_command,
          compiler_spawns, compiler_env, clang_output, result, handle,
          artifact_runs, artifact_env, obstructed, drop_failed_at, tokens,
          cfg_nightly>>

(***************************************************************************)
(* Bounds of the model.                                                    *)
(***************************************************************************)
\* most fragments an input text of the extraction specification is made of
MaxFrags == 3
\* most runs of the compiled artifact through one Run Handle
MaxRuns == 2
\* most pieces that follow the head of a token stream given to the macros
MaxTokens == 3

(***************************************************************************)
(* Characters and literals of the source.                                  *)
(***************************************************************************)
\* Rust's `char::is_whitespace` / regex `\s`, restricted to the characters used
WhiteSpace == {" ", "\t", "\n", "\r"}

\* `u8::is_ascii_whitespace`, restricted to the characters used
AsciiWhiteSpace == {" ", "\t", "\n", "\r"}

\* regex `\w`, restricted to ASCII
WordChars ==
  {"a", "b", "c", "d", "e", "f", "g", "h", "i", "j", "k", "l", "m", "n", "o",
   "p", "q", "r", "s", "t", "u", "v", "w", "x", "y", "z", "A", "B", "C", "D",
   "E", "F", "G", "H", "I", "J", "K", "L", "M", "N", "O", "P", "Q", "R", "S",
   "T", "U", "V", "W", "X", "Y", "Z", "0", "1", "2", "3", "4", "5", "6", "7",
   "8", "9", "_"}

\* the literal prefix of both regular expressions: "#inline_c_rs "
MarkerWord == <<"#", "i", "n", "l", "i", "n", "e", "_", "c", "_", "r", "s">>

Marker == MarkerWord \o <<" ">>

\* the regex class [^:\n\r] is the complement of this set
NameStop == {":", "\n", "\r"}

\* the regex class [^"] is the complement of this set
ValueStop == {"\""}

ENV_VAR_PREFIX == <<"I", "N", "L", "I", "N", "E", "_", "C", "_", "R", "S", "_">>

SHARED == <<"S", "H", "A", "R", "E", "D">>

TARGET == <<"T", "A", "R", "G", "E", "T">>

CFLAGS == <<"C", "F", "L", "A", "G", "S">>

CPPFLAGS == <<"C", "P", "P", "F", "L", "A", "G", "S">>

CXXFLAGS == <<"C", "X", "X", "F", "L", "A", "G", "S">>

LDFLAGS == <<"L", "D", "F", "L", "A", "G", "S">>

(***************************************************************************)
(* String helpers (std).                                                   *)
(***************************************************************************)
\* the literal `lit` stands in `t` at position i
HasAt(t, i, lit) ==
  /\ i >= 1
  /\ i + Len(lit) - 1 <= Len(t)
  /\ \A k \in 1..Len(lit) : t[i + k - 1] = lit[k]

\* str::starts_with
starts_with(s, prefix) == HasAt(s, 1, prefix)

\* String::split_off(at): the tail from byte `at` on
split_off(s, at) == SubSeq(s, at + 1, Len(s))

\* str::contains
contains(s, sub) == \E i \in 1..(Len(s) + 1) : HasAt(s, i, sub)

\* first position >= i whose character is in S, or Len(t)+1
SkipUntil(t, i, S) ==
  CHOOSE j \in i..(Len(t) + 1) :
    /\ j = Len(t) + 1 \/ t[j] \in S
    /\ \A k \in i..(j - 1) : t[k] \notin S

\* first position >= i whose character is not in S, or Len(t)+1
SkipWhile(t, i, S) ==
  CHOOSE j \in i..(Len(t) + 1) :
    /\ j = Len(t) + 1 \/ t[j] \notin S
    /\ \A k \in i..(j - 1) : t[k] \in S

\* last position <= i whose character is not in S, or 0
SkipBackWhile(t, i, S) ==
  CHOOSE j \in 0..i :
    /\ j = 0 \/ t[j] \notin S
    /\ \A k \in (j + 1)..i : t[k] \in S

\* str::trim
trim(s) ==
  LET a == SkipWhile(s, 1, WhiteSpace)
      b == SkipBackWhile(s, Len(s), WhiteSpace)
  IN  IF a > b THEN <<>> ELSE SubSeq(s, a, b)

\* str::split_ascii_whitespace, collected: the maximal runs of non-whitespace
RECURSIVE SplitFrom(_, _)
SplitFrom(s, i) ==
  LET a == SkipWhile(s, i, AsciiWhiteSpace)
      b == SkipUntil(s, a, AsciiWhiteSpace)
  IN  IF a > Len(s) THEN <<>>
      ELSE <<SubSeq(s, a, b - 1)>> \o SplitFrom(s, b)

split_ascii_whitespace(s) == SplitFrom(s, 1)

\* HashMap::insert
insert(m, k, v) == [x \in DOMAIN m \cup {k} |-> IF x = k THEN v ELSE m[x]]

EmptyMap == [x \in {} |-> <<>>]

(***************************************************************************)
(* The two regular expressions of run.rs.  A match is a record             *)
(* [from, to, name, value] (positions inclusive); NoMatch has from = 0.    *)
(***************************************************************************)
NoMatch == [from |-> 0, to |-> 0, name |-> <<>>, value |-> <<>>]

\* REGEX: #inline_c_rs (?P<variable_name>[^:\n\r]+):\s*"(?P<variable_value>[^"]+)"
\* anchored at position i.  Every piece is a greedy run followed by a character
\* outside the run's class, so the match at i is unique when it exists.
REGEX_at(t, i) ==
  LET ns == i + Len(Marker)
      ne == SkipUntil(t, ns, NameStop)
      q  == SkipWhile(t, ne + 1, WhiteSpace)
      ve == SkipUntil(t, q + 1, ValueStop)
  IN  IF /\ HasAt(t, i, Marker)
         /\ ne > ns /\ ne <= Len(t) /\ t[ne] = ":"
         /\ q <= Len(t) /\ t[q] = "\""
         /\ ve > q + 1 /\ ve <= Len(t)
      THEN [from |-> i, to |-> ve, name |-> SubSeq(t, ns, ne - 1),
            value |-> SubSeq(t, q + 1, ve - 1)]
      ELSE NoMatch

\* REGEX_NO_VAL: #inline_c_rs (?P<variable_name>\w+)   anchored at position i
REGEX_NO_VAL_at(t, i) ==
  LET ns == i + Len(Marker)
      ne == SkipWhile(t, ns, WordChars)
  IN  IF HasAt(t, i, Marker) /\ ne > ns
      THEN [from |-> i, to |-> ne - 1, name |-> SubSeq(t, ns, ne - 1),
            value |-> <<>>]
      ELSE NoMatch

\* Regex::captures_iter: the leftmost match at or after `from`, then the
\* leftmost one after its end, and so on (non-overlapping)
\* the match of the regular expression `re` anchored at position i
match_at(re, t, i) == IF re = "REGEX" THEN REGEX_at(t, i) ELSE REGEX_NO_VAL_at(t, i)

RECURSIVE captures_iter(_, _, _)
captures_iter(re, t, from) ==
  LET starts == {i \in from..Len(t) : match_at(re, t, i).from # 0}
  IN  IF starts = {} THEN <<>>
      ELSE LET i == CHOOSE x \in starts : \A y \in starts : x <= y
               m == match_at(re, t, i)
           IN  <<m>> \o captures_iter(re, t, m.to + 1)

\* Regex::replace_all(t, ""): the text between the matches, in order
RECURSIVE Between(_, _, _)
Between(t, ms, from) ==
  IF ms = <<>> THEN SubSeq(t, from, Len(t))
  ELSE SubSeq(t, from, Head(ms).from - 1) \o Between(t, Tail(ms), Head(ms).to + 1)

replace_all(re, t) == Between(t, captures_iter(re, t, 1), 1)

(***************************************************************************)
(* Directive extraction.                                                   *)
(***************************************************************************)
\* the loop over env::vars(): every variable whose name starts with the prefix
\* is inserted under the name with the prefix split off
RECURSIVE InsertEnv(_, _, _)
InsertEnv(m, env, names) ==
  IF names = {} THEN m
  ELSE LET n == CHOOSE x \in names : TRUE
       IN  InsertEnv(IF starts_with(n, ENV_VAR_PREFIX)
                       THEN insert(m, split_off(n, Len(ENV_VAR_PREFIX)), env[n])
                       ELSE m,
                     env, names \ {n})

\* the loop over REGEX.captures_iter(program)
RECURSIVE InsertCaptures(_, _)
InsertCaptures(m, ms) ==
  IF ms = <<>> THEN m
  ELSE InsertCaptures(insert(m, trim(Head(ms).name), Head(ms).value), Tail(ms))

\* collect_environment_variables with the two loops in the other order: the
\* environment overrides the in-source directives
collect_environment_variables_env_last(text, env) ==
  [program   |-> replace_all("REGEX", text),
   variables |-> InsertEnv(InsertCaptures(EmptyMap, captures_iter("REGEX", text, 1)),
                           env, DOMAIN env)]

\* the loop over REGEX.captures_iter(program) without the trim() of the name
RECURSIVE InsertCapturesUntrimmed(_, _)
InsertCapturesUntrimmed(m, ms) ==
  IF ms = <<>> THEN m
  ELSE InsertCapturesUntrimmed(insert(m, Head(ms).name, Head(ms).value), Tail(ms))

collect_environment_variables_untrimmed(text, env) ==
  [program   |-> replace_all("REGEX", text),
   variables |-> InsertCapturesUntrimmed(InsertEnv(EmptyMap, env, DOMAIN env),
                                         captures_iter("REGEX", text, 1))]

collect_environment_variables(text, env) ==
  [program   |-> replace_all("REGEX", text),
   variables |-> InsertCaptures(InsertEnv(EmptyMap, env, DOMAIN env),
                                captures_iter("REGEX", text, 1))]

RECURSIVE Names(_)
Names(ms) == IF ms = <<>> THEN <<>> ELSE <<trim(Head(ms).name)>> \o Names(Tail(ms))

collect_options(text) ==
  [program |-> replace_all("REGEX_NO_VAL", text),
   options |-> Names(captures_iter("REGEX_NO_VAL", text, 1))]

(***************************************************************************)
(* Paths, commands and the compiler command construction.                  *)
(***************************************************************************)
\* a temporary path: the unique name tempfile picks and the suffix asked for
NoPath == [id |-> 0, suffix |-> ""]

\* the n-th unique temporary path with the given suffix
TempPath(n, suffix) == [id |-> n, suffix |-> suffix]

\* PathBuf::set_extension on a temporary file name (prefix, random part without
\* a dot, suffix): the extension, if any, is replaced
set_extension(path, ext) == [path EXCEPT !.suffix = "." \o ext]

\* Language::to_string
to_string(lang) == IF lang = "C" THEN "c" ELSE "cpp"

\* an argument of a command: a string, a path, or a string directly followed by
\* a path (OsString::push)
StrArg(s) == [s |-> s, p |-> NoPath]

PathArg(p) == [s |-> <<>>, p |-> p]

StrPathArg(s, p) == [s |-> s, p |-> p]

RECURSIVE StrArgs(_)
StrArgs(ss) == IF ss = <<>> THEN <<>> ELSE <<StrArg(Head(ss))>> \o StrArgs(Tail(ss))

\* Command::arg / Command::args
arg(command, a) == [command EXCEPT !.args = Append(@, a)]

args(command, as) == [command EXCEPT !.args = @ \o as]

\* Command::envs: every pair of the map is set in the command's environment
envs(command, m) ==
  [command EXCEPT !.env = [k \in DOMAIN @ \cup DOMAIN m |->
                             IF k \in DOMAIN m THEN m[k] ELSE @[k]]]

\* the environment a spawned process sees: the parent's, overridden by the
\* command's
spawn_env(command, parent) ==
  [k \in DOMAIN parent \cup DOMAIN command.env |->
     IF k \in DOMAIN command.env THEN command.env[k] ELSE parent[k]]

\* the closure get_env_flags of command_add_compiler_flags: Option::ok_or_else
\* turns an absent key into Err(env::var(..)), and Result::unwrap_or_default
\* turns every Err into the empty string, so the looked-up value is dropped
get_env_flags(vs, env, env_name) ==
  split_ascii_whitespace(IF env_name \in DOMAIN vs THEN vs[env_name] ELSE <<>>)

RECURSIVE WlArgs(_)
WlArgs(ss) ==
  IF ss = <<>> THEN <<>>
  ELSE <<StrArg(<<"-", "W", "l", ",">> \o Head(ss))>> \o WlArgs(Tail(ss))

\* command_add_compiler_flags with /LD chosen for every Windows target
command_add_compiler_flags_ld_on_windows(command, vs, env, is_shared, target) ==
  LET c1 == args(command, StrArgs(get_env_flags(vs, env, CFLAGS)))
      c2 == args(c1, StrArgs(get_env_flags(vs, env, CPPFLAGS)))
      c3 == args(c2, StrArgs(get_env_flags(vs, env, CXXFLAGS)))
      c4 == IF is_shared
              THEN IF contains(target, <<"w", "i", "n", "d", "o", "w", "s">>)
                     THEN arg(c3, StrArg(<<"/", "L", "D">>))
                     ELSE arg(c3, StrArg(<<"-", "s", "h", "a", "r", "e", "d">>))
              ELSE c3
  IN  args(c4, WlArgs(get_env_flags(vs, env, LDFLAGS)))

command_add_compiler_flags(command, vs, env, is_shared, target) ==
  LET c1 == args(command, StrArgs(get_env_flags(vs, env, CFLAGS)))
      c2 == args(c1, StrArgs(get_env_flags(vs, env, CPPFLAGS)))
      c3 == args(c2, StrArgs(get_env_flags(vs, env, CXXFLAGS)))
      c4 == IF is_shared
              THEN IF /\ contains(target, <<"w", "i", "n", "d", "o", "w", "s">>)
                      /\ contains(target, <<"m", "s", "v", "c">>)
                     THEN arg(c3, StrArg(<<"/", "L", "D">>))
                     ELSE arg(c3, StrArg(<<"-", "s", "h", "a", "r", "e", "d">>))
              ELSE c3
  IN  args(c4, WlArgs(get_env_flags(vs, env, LDFLAGS)))

command_add_output_file(command, output_path, msvc, clang) ==
  IF msvc /\ ~clang
    THEN arg(arg(command, StrPathArg(<<"-", "F", "o">>, set_extension(output_path, "obj"))),
             StrPathArg(<<"-", "F", "e">>, output_path))
    ELSE arg(arg(command, StrArg(<<"-", "o">>)), PathArg(output_path))

\* output_suffix with the Windows test made on "msvc"
output_suffix_msvc_only(target, is_shared) ==
  IF contains(target, <<"m", "s", "v", "c">>) /\ is_shared THEN ".dll"
  ELSE IF contains(target, <<"m", "s", "v", "c">>) THEN ".exe"
  ELSE ""

\* the suffix forced on the output path (run.rs, lines 62 to 67)
output_suffix(target, is_shared) ==
  IF contains(target, <<"w", "i", "n", "d", "o", "w", "s">>) /\ is_shared THEN ".dll"
  ELSE IF contains(target, <<"w", "i", "n", "d", "o", "w", "s">>) THEN ".exe"
  ELSE ""

\* the target triple (run.rs, lines 51 to 54)
resolve_target(vs, hst) == IF TARGET \in DOMAIN vs THEN vs[TARGET] ELSE hst

\* the arguments cc's compiler brings along (compiler.args(), to_command())
ToolArgs == <<StrArg(<<"-", "O", "0">>)>>

\* compiler_invocation with the Variable Set given to the command on the MSVC
\* path only
compiler_invocation_envs_on_msvc_only(vs, env, is_shared, target, input_path, output_path, clang) ==
  LET msvc == contains(target, <<"m", "s", "v", "c">>)
      tool == [program |-> "compiler", args |-> <<>>, env |-> EmptyMap]
  IN  IF msvc
        THEN LET c1 == args(tool, ToolArgs)
                 c2 == command_add_compiler_flags(c1, vs, env, is_shared, target)
                 c3 == command_add_output_file(c2, output_path, msvc, clang)
                 c4 == arg(c3, PathArg(input_path))
             IN  envs(c4, vs)
        ELSE LET c1 == arg(tool, PathArg(input_path))
                 c2 == args(c1, ToolArgs)
                 c3 == command_add_compiler_flags(c2, vs, env, is_shared, target)
             IN  command_add_output_file(c3, output_path, msvc, clang)

\* the compiler command (run.rs, lines 92 to 111)
compiler_invocation(vs, env, is_shared, target, input_path, output_path, clang) ==
  LET msvc == contains(target, <<"m", "s", "v", "c">>)
      tool == [program |-> "compiler", args |-> <<>>, env |-> EmptyMap]
  IN  IF msvc
        THEN LET c1 == args(tool, ToolArgs)
                 c2 == command_add_compiler_flags(c1, vs, env, is_shared, target)
                 c3 == command_add_output_file(c2, output_path, msvc, clang)
                 c4 == arg(c3, PathArg(input_path))
                 c5 == envs(c4, vs)
             IN  envs(c5, vs)
        ELSE LET c1 == arg(tool, PathArg(input_path))
                 c2 == args(c1, ToolArgs)
                 c3 == command_add_compiler_flags(c2, vs, env, is_shared, target)
                 c4 == command_add_output_file(c3, output_path, msvc, clang)
             IN  envs(c4, vs)

\* files_to_remove_of without the object path of an MSVC build
files_to_remove_of_without_object(target, input_path, output_path) ==
  <<input_path, output_path>>

\* the cleanup list (run.rs, lines 113 to 118)
files_to_remove_of(target, input_path, output_path) ==
  <<input_path, output_path>>
    \o (IF contains(target, <<"m", "s", "v", "c">>)
          THEN <<set_extension(output_path, "obj")>> ELSE <<>>)

\* the command of the Run Handle (run.rs, lines 128 to 129)
artifact_command(output_path, vs) ==
  envs([program |-> output_path, args |-> <<>>, env |-> EmptyMap], vs)

(***************************************************************************)
(* The compiler's outcome and the result of the build.                     *)
(***************************************************************************)
Continuation(b) == b >= 128 /\ b <= 191

\* String::from_utf8's validity check on a byte sequence
RECURSIVE Utf8Valid(_)
Utf8Valid(bs) ==
  IF bs = <<>> THEN TRUE
  ELSE LET b == bs[1]
           n == Len(bs)
       IN  IF b < 128 THEN Utf8Valid(Tail(bs))
           ELSE IF b >= 194 /\ b <= 223
             THEN n >= 2 /\ Continuation(bs[2]) /\ Utf8Valid(SubSeq(bs, 3, n))
           ELSE IF b >= 224 /\ b <= 239
             THEN /\ n >= 3
                  /\ Continuation(bs[2]) /\ Continuation(bs[3])
                  /\ (b = 224 => bs[2] >= 160)
                  /\ (b = 237 => bs[2] <= 159)
                  /\ Utf8Valid(SubSeq(bs, 4, n))
           ELSE IF b >= 240 /\ b <= 244
             THEN /\ n >= 4
                  /\ Continuation(bs[2]) /\ Continuation(bs[3]) /\ Continuation(bs[4])
                  /\ (b = 240 => bs[2] >= 144)
                  /\ (b = 244 => bs[2] <= 143)
                  /\ Utf8Valid(SubSeq(bs, 5, n))
           ELSE FALSE

NoResult == [kind |-> "none", error |-> "", text |-> <<>>]

Ok == [kind |-> "Ok", error |-> "", text |-> <<>>]

\* the `?` on an io::Error or a cc::Error
Err(e) == [kind |-> "Err", error |-> e, text |-> <<>>]

\* Err(Box::new(CompilationError(text)))
CompilationError(text) == [kind |-> "Err", error |-> "CompilationError", text |-> text]

\* .expect("Error bytes should be valid utf8") on invalid bytes
Panic == [kind |-> "panic", error |-> "", text |-> <<>>]

\* compile_result with an unsuccessful exit that wrote nothing to its standard
\* error taken for a success
compile_result_quiet_failure_is_ok(out) ==
  IF ~out.success /\ out.stderr # <<>>
    THEN IF Utf8Valid(out.stderr) THEN CompilationError(out.stderr) ELSE Panic
    ELSE Ok

\* what `run` does with the compiler's Output (run.rs, lines 122 to 131)
compile_result(out) ==
  IF ~out.success
    THEN IF Utf8Valid(out.stderr) THEN CompilationError(out.stderr) ELSE Panic
    ELSE Ok

NoCommand == [program |-> "none", args |-> <<>>, env |-> EmptyMap]

NoOutput == [spawned |-> FALSE, success |-> FALSE, stderr |-> <<>>]

NoHandle ==
  [state |-> "none", command |-> NoCommand, files_to_remove |-> <<>>,
   output_path |-> NoPath]

\* Assert::new(command, Some(files_to_remove), output_path)
new(command, files, output_path) ==
  [state |-> "live", command |-> command, files_to_remove |-> files,
   output_path |-> output_path]

(***************************************************************************)
(* Disposal of the Run Handle.                                             *)
(***************************************************************************)
\* drop_loop without the fs::metadata test: remove_file is called on every
\* path, and fails on an absent one
RECURSIVE drop_loop_unchecked(_, _, _)
drop_loop_unchecked(files, f, obs) ==
  IF files = <<>> THEN [fs |-> f, failed_at |-> NoPath]
  ELSE LET file == Head(files)
       IN  IF file \in f /\ file \notin obs
             THEN drop_loop_unchecked(Tail(files), f \ {file}, obs)
             ELSE [fs |-> f, failed_at |-> file]

\* the loop of Drop::drop over files_to_remove: a path whose metadata can be
\* read is removed; a failing removal panics and ends the loop
RECURSIVE drop_loop(_, _, _)
drop_loop(files, f, obs) ==
  IF files = <<>> THEN [fs |-> f, failed_at |-> NoPath]
  ELSE LET file == Head(files)
       IN  IF file \in f
             THEN IF file \in obs
                    THEN [fs |-> f, failed_at |-> file]
                    ELSE drop_loop(Tail(files), f \ {file}, obs)
             ELSE drop_loop(Tail(files), f, obs)

(***************************************************************************)
(* Inputs.                                                                 *)
(***************************************************************************)
Range(s) == {s[i] : i \in 1..Len(s)}

ValueDirective(key, value) == Marker \o key \o <<":", " ", "\"">> \o value \o <<"\"">>

OptionDirective(word) == Marker \o word

Body == <<"x", ";">>

WindowsMsvc ==
  <<"x", "8", "6", "_", "6", "4", "-", "p", "c", "-", "w", "i", "n", "d", "o",
    "w", "s", "-", "m", "s", "v", "c">>

WindowsGnu ==
  <<"x", "8", "6", "_", "6", "4", "-", "p", "c", "-", "w", "i", "n", "d", "o",
    "w", "s", "-", "g", "n", "u">>

LinuxGnu ==
  <<"x", "8", "6", "_", "6", "4", "-", "u", "n", "k", "n", "o", "w", "n", "-",
    "l", "i", "n", "u", "x", "-", "g", "n", "u">>

Hosts == {LinuxGnu, WindowsMsvc}

FlagsA == <<"-", "D", "A", " ", " ", "-", "D", "B">>

FlagsE == <<"-", "D", "E">>

FlagsL == <<"-", "L", ".", " ", "-", "l", "m">>

\* the program texts given to `run`; every `#` follows a line break, as in the
\* text the macros reconstruct
Programs ==
  { Body,
    <<"\n">> \o OptionDirective(SHARED) \o <<" ", "\n">> \o Body,
    <<"\n">> \o ValueDirective(TARGET \o <<" ">>, WindowsMsvc) \o <<"\n">> \o Body,
    <<"\n">> \o OptionDirective(SHARED) \o <<" ", "\n">>
       \o ValueDirective(TARGET \o <<" ">>, WindowsGnu) \o <<"\n">> \o Body,
    <<"\n">> \o ValueDirective(CFLAGS, FlagsA) \o <<"\n">>
       \o ValueDirective(CXXFLAGS, FlagsE) \o <<"\n">>
       \o ValueDirective(LDFLAGS, FlagsL) \o <<"\n">> \o Body,
    <<"\n">> \o OptionDirective(SHARED) \o <<" ", "\n">>
       \o ValueDirective(LDFLAGS, FlagsL) \o <<"\n">>
       \o ValueDirective(TARGET \o <<" ">>, WindowsMsvc) \o <<"\n">> \o Body }

KeyK == <<"K">>

\* the process environments
EnvPlain == [n \in {CFLAGS, CPPFLAGS} |-> IF n = CFLAGS THEN FlagsE ELSE FlagsA]

EnvPrefixed ==
  [n \in {ENV_VAR_PREFIX \o CFLAGS, ENV_VAR_PREFIX \o TARGET,
          ENV_VAR_PREFIX \o KeyK, LDFLAGS} |->
     IF n = ENV_VAR_PREFIX \o CFLAGS THEN FlagsE
     ELSE IF n = ENV_VAR_PREFIX \o TARGET THEN WindowsGnu
     ELSE IF n = LDFLAGS THEN FlagsL
     ELSE <<"e">>]

Envs == {EmptyMap, EnvPlain, EnvPrefixed}

\* the bytes the compiler writes to its standard error: nothing, "e", "e-acute"
\* in UTF-8, and "e-acute" in Latin-1
Stderrs == {<<>>, <<101>>, <<195, 169>>, <<233>>}

\* where a build ends
Outcomes ==
  {"tempfile_err", "write_err", "keep_err", "output_tempfile_err",
   "output_keep_err", "compiler_err", "spawn_err", "exit_failure", "exit_success"}

\* the fragments the input texts of the extraction specification are made of
Fragments ==
  { ValueDirective(KeyK, <<"v">>),
    Marker \o KeyK \o <<" ", ":", "\"", "w", "\"">>,
    OptionDirective(SHARED),
    Marker \o <<"J", ":", " ", "\"">>,
    MarkerWord, <<" ">>, <<"\n">>, <<" ">> \o KeyK, <<"\"">> }

RECURSIVE Texts(_)
Texts(n) ==
  IF n = 0 THEN {<<>>}
  ELSE LET shorter == Texts(n - 1)
       IN  shorter \cup {t \o f : t \in shorter, f \in Fragments}

(***************************************************************************)
(* The build: `run` of run.rs, as one step of the caller.                  *)
(***************************************************************************)
InitRest ==
  /\ language = "C"
  /\ cleaned = <<>>
  /\ variables = EmptyMap
  /\ options = <<>>
  /\ fs = {}
  /\ created = {}
  /\ kept_input = NoPath
  /\ kept_output = NoPath
  /\ compiler_command = NoCommand
  /\ compiler_spawns = 0
  /\ compiler_env = EmptyMap
  /\ clang_output = NoOutput
  /\ result = NoResult
  /\ handle = NoHandle
  /\ artifact_runs = 0
  /\ artifact_env = EmptyMap
  /\ obstructed = {}
  /\ drop_failed_at = NoPath

\* no macro input: the program text is given to `run` directly
NoTokens ==
  /\ tokens = <<>>
  /\ cfg_nightly = FALSE

Init ==
  /\ penv \in Envs
  /\ host \in Hosts
  /\ program = <<>>
  /\ pc = "idle"
  /\ InitRest
  /\ NoTokens

run(lang, prog, clang, outcome, stderr, obj_on_failure) ==
  LET cev == collect_environment_variables(prog, penv)
      co  == collect_options(cev.program)
      is_shared == SHARED \in Range(co.options)
      target == resolve_target(cev.variables, host)
      msvc == contains(target, <<"m", "s", "v", "c">>)
      inp == TempPath(1, "." \o to_string(lang))
      outp == TempPath(2, output_suffix(target, is_shared))
      command == compiler_invocation(cev.variables, penv, is_shared, target,
                                     inp, outp, clang)
      files == files_to_remove_of(target, inp, outp)
      spawned == outcome \in {"exit_failure", "exit_success"}
      out == [spawned |-> spawned, success |-> outcome = "exit_success",
              stderr |-> IF spawned THEN stderr ELSE <<>>]
      res == IF outcome \in {"tempfile_err", "write_err", "keep_err",
                             "output_tempfile_err", "output_keep_err", "spawn_err"}
               THEN Err("io")
             ELSE IF outcome = "compiler_err" THEN Err("cc")
             ELSE compile_result(out)
      \* the object file a non-clang MSVC compiler is told to write
      obj == IF /\ spawned /\ msvc /\ ~clang
                /\ (outcome = "exit_success" \/ obj_on_failure)
               THEN {set_extension(outp, "obj")} ELSE {}
      made == IF outcome = "tempfile_err" THEN {}
              ELSE IF outcome \in {"write_err", "keep_err", "output_tempfile_err"}
                THEN {inp}
              ELSE {inp, outp} \cup obj
      \* a NamedTempFile that is dropped before keep() deletes its file
      kept == IF outcome \in {"tempfile_err", "write_err", "keep_err"} THEN {}
              ELSE IF outcome \in {"output_tempfile_err", "output_keep_err"}
                THEN {inp}
              ELSE {inp, outp} \cup obj
      built == outcome \in {"spawn_err", "exit_failure", "exit_success"}
  IN  /\ pc = "idle"
      /\ program' = prog
      /\ language' = lang
      /\ cleaned' = co.program
      /\ variables' = cev.variables
      /\ options' = co.options
      /\ created' = made
      /\ fs' = kept
      /\ kept_input' = IF inp \in kept THEN inp ELSE NoPath
      /\ kept_output' = IF outp \in kept THEN outp ELSE NoPath
      /\ compiler_command' = IF built THEN command ELSE NoCommand
      /\ compiler_spawns' = IF built THEN compiler_spawns + 1 ELSE compiler_spawns
      /\ compiler_env' = IF spawned THEN spawn_env(command, penv) ELSE EmptyMap
      /\ clang_output' = out
      /\ result' = res
      /\ handle' = IF res.kind = "Ok"
                     THEN new(artifact_command(outp, cev.variables), files, outp)
                     ELSE NoHandle
      /\ pc' = IF res.kind = "panic" THEN "panicked" ELSE "returned"
      /\ UNCHANGED <<penv, host, artifact_runs, artifact_env, obstructed,
                     drop_failed_at,
                 tokens, cfg_nightly>>

Build ==
  \E lang \in {"C", "Cxx"}, prog \in Programs, clang \in BOOLEAN,
     outcome \in Outcomes :
    \E stderr \in (IF outcome = "exit_failure" THEN Stderrs ELSE {<<>>}),
       obj_on_failure \in (IF outcome = "exit_failure" THEN BOOLEAN ELSE {FALSE}) :
      run(lang, prog, clang, outcome, stderr, obj_on_failure)

\* Assert::assert (and success, failure): the artifact is run once more
assert ==
  /\ handle.state = "live"
  /\ handle.output_path \in fs
  /\ artifact_runs < MaxRuns
  /\ artifact_runs' = artifact_runs + 1
  /\ artifact_env' = spawn_env(handle.command, penv)
  /\ UNCHANGED <<penv, host, program, language, pc, cleaned, variables, options,
                 fs, created, kept_input, kept_output, compiler_command, compiler_spawns, compiler_env,
                 clang_output, result, handle, obstructed, drop_failed_at,
                 tokens, cfg_nightly>>

\* the caller (or anything else) removes a tracked path before the disposal
remove_file(path) ==
  /\ handle.state = "live"
  /\ path \in Range(handle.files_to_remove)
  /\ path \in fs
  /\ fs' = fs \ {path}
  /\ UNCHANGED <<penv, host, program, language, pc, cleaned, variables, options,
                 created, kept_input, kept_output, compiler_command, compiler_spawns, compiler_env,
                 clang_output, result, handle, artifact_runs, artifact_env,
                 obstructed, drop_failed_at,
                 tokens, cfg_nightly>>

RemoveFile == \E path \in Range(handle.files_to_remove) : remove_file(path)

\* Drop for Assert
drop(obs) ==
  LET after == drop_loop(handle.files_to_remove, fs, obs)
  IN  /\ handle.state = "live"
      /\ obstructed' = obs
      /\ fs' = after.fs
      /\ drop_failed_at' = after.failed_at
      /\ handle' = [handle EXCEPT !.state =
                      IF after.failed_at = NoPath THEN "dropped" ELSE "panicked"]
      /\ UNCHANGED <<penv, host, program, language, pc, cleaned, variables,
                     options, created, kept_input, kept_output,
                     compiler_command, compiler_spawns,
                     compiler_env, clang_output, result, artifact_runs,
                     artifact_env,
                 tokens, cfg_nightly>>

Drop == \E obs \in SUBSET Range(handle.files_to_remove) : drop(obs)

Next == Build \/ assert \/ RemoveFile \/ Drop

Spec == Init /\ [][Next]_vars

(***************************************************************************)
(* The directive extraction on its own, over many input texts.             *)
(***************************************************************************)
InitExtract ==
  /\ penv \in {EmptyMap, EnvPrefixed}
  /\ host = LinuxGnu
  /\ program \in Texts(MaxFrags)
  /\ pc = "text"
  /\ InitRest
  /\ NoTokens

ExtractVariables ==
  LET cev == collect_environment_variables(program, penv)
  IN  /\ pc = "text"
      /\ pc' = "variables"
      /\ cleaned' = cev.program
      /\ variables' = cev.variables
      /\ UNCHANGED <<penv, host, program, language, options, fs, created,
                     kept_input, kept_output,
                     compiler_command, compiler_spawns, compiler_env,
                     clang_output, result, handle, artifact_runs, artifact_env,
                     obstructed, drop_failed_at,
                 tokens, cfg_nightly>>

ExtractOptions ==
  LET co == collect_options(cleaned)
  IN  /\ pc = "variables"
      /\ pc' = "options"
      /\ cleaned' = co.program
      /\ options' = co.options
      /\ UNCHANGED <<penv, host, program, language, variables, fs, created,
                     kept_input, kept_output,
                     compiler_command, compiler_spawns, compiler_env,
                     clang_output, result, handle, artifact_runs, artifact_env,
                     obstructed, drop_failed_at,
                 tokens, cfg_nightly>>

NextExtract == ExtractVariables \/ ExtractOptions

SpecExtract == InitExtract /\ [][NextExtract]_vars

(***************************************************************************)
(* The token reconstructor: `reconstruct` of src/macros/src/lib.rs.        *)
(*                                                                         *)
(* A token is a record: its kind (Ident, Punct, Literal, Group), its text  *)
(* (the one character of a Punct), the spacing of a Punct, the delimiter   *)
(* and the inner stream of a Group, and the source line its span starts on.*)
(***************************************************************************)
Ident(text, line) ==
  [kind |-> "Ident", text |-> text, spacing |-> "Alone", delimiter |-> "None",
   stream |-> <<>>, line |-> line]

Punct(ch, spacing, line) ==
  [kind |-> "Punct", text |-> <<ch>>, spacing |-> spacing, delimiter |-> "None",
   stream |-> <<>>, line |-> line]

Literal(text, line) ==
  [kind |-> "Literal", text |-> text, spacing |-> "Alone", delimiter |-> "None",
   stream |-> <<>>, line |-> line]

Group(delimiter, stream, line) ==
  [kind |-> "Group", text |-> <<>>, spacing |-> "Alone", delimiter |-> delimiter,
   stream |-> stream, line |-> line]

\* what Iterator::next and Peekable::peek give at the end of the stream
NoToken ==
  [kind |-> "None", text |-> <<>>, spacing |-> "Alone", delimiter |-> "None",
   stream |-> <<>>, line |-> 0]

\* the token at position i of the stream, or None
peek(ts, i) == IF i >= 1 /\ i <= Len(ts) THEN ts[i] ELSE NoToken

include == <<"i", "n", "c", "l", "u", "d", "e">>

define == <<"d", "e", "f", "i", "n", "e">>

ifdef == <<"i", "f", "d", "e", "f">>

else == <<"e", "l", "s", "e">>

endif == <<"e", "n", "d", "i", "f">>

elif == <<"e", "l", "i", "f">>

\* the identifiers of the guard of lib.rs, line 108
DirectiveKeywords == {define, ifdef, else, endif, elif}

OpenDelimiter(d) ==
  IF d = "Parenthesis" THEN <<"(">> ELSE IF d = "Brace" THEN <<"{">>
  ELSE IF d = "Bracket" THEN <<"[">> ELSE <<>>

CloseDelimiter(d) ==
  IF d = "Parenthesis" THEN <<")">> ELSE IF d = "Brace" THEN <<"}">>
  ELSE IF d = "Bracket" THEN <<"]">> ELSE <<>>

\* TokenTree::to_string: the text of an identifier, a punctuation or a literal;
\* a group is its delimiters around its tokens, a space after every token but
\* a Joint punctuation and the last one
RECURSIVE token_to_string(_), stream_to_string(_, _)
token_to_string(token) ==
  IF token.kind = "Group"
    THEN OpenDelimiter(token.delimiter) \o stream_to_string(token.stream, 1)
           \o CloseDelimiter(token.delimiter)
    ELSE token.text

stream_to_string(ts, i) ==
  IF i > Len(ts) THEN <<>>
  ELSE token_to_string(ts[i])
         \o (IF i < Len(ts) /\ ~(ts[i].kind = "Punct" /\ ts[i].spacing = "Joint")
               THEN <<" ">> ELSE <<>>)
         \o stream_to_string(ts, i + 1)

\* a part of the reconstruction got to position `next` of the stream with this
\* output
Reached(output, next) == [panicked |-> FALSE, output |-> output, next |-> next]

\* panic!: the stack unwinds and the output built so far is dropped
Panicked == [panicked |-> TRUE, output |-> <<>>, next |-> 0]

\* the loop of lib.rs, lines 65 to 86, with an Alone punctuation followed by a
\* space as in the arm of lines 152 to 158
RECURSIVE include_value_spaced(_, _, _)
include_value_spaced(ts, j, output) ==
  LET token == peek(ts, j)
  IN  IF token.kind = "Punct"
        THEN IF token.text = <<">">> THEN Reached(output, j + 1)
             ELSE include_value_spaced(ts, j + 1,
                    output \o token.text
                      \o (IF token.spacing = "Alone" THEN <<" ">> ELSE <<>>))
      ELSE IF token.kind = "Ident"
        THEN include_value_spaced(ts, j + 1, output \o token.text \o <<" ">>)
      ELSE Panicked

\* the loop of lib.rs, lines 65 to 86: the tokens between `<` and `>`
RECURSIVE include_value(_, _, _)
include_value(ts, j, output) ==
  LET token == peek(ts, j)
  IN  IF token.kind = "Punct"
        THEN IF token.text = <<">">> THEN Reached(output, j + 1)
             ELSE include_value(ts, j + 1, output \o token.text)
      ELSE IF token.kind = "Ident"
        THEN include_value(ts, j + 1, output \o token.text)
      ELSE Panicked

\* include_directive with the text built so far returned where the code panics
include_directive_lenient(ts, i, output) ==
  LET token == peek(ts, i)
  IN  IF token.kind = "Punct"
        THEN IF token.text # <<"<">> THEN Reached(output, i + 1)
             ELSE LET value == include_value(ts, i + 1,
                                 output \o include \o <<" ", "<">>)
                  IN  IF value.panicked
                        THEN Reached(output \o include \o <<" ", "<">>, Len(ts) + 1)
                        ELSE Reached(value.output \o <<">", "\n">>, value.next)
      ELSE IF token.kind = "Literal"
        THEN Reached(output \o include \o <<" ">> \o token_to_string(token)
                       \o <<"\n">>, i + 1)
      ELSE Reached(output, i + 1)

\* lib.rs, lines 53 to 105: what follows `# include`, from position i on
include_directive(ts, i, output) ==
  LET token == peek(ts, i)
  IN  IF token.kind = "Punct"
        THEN IF token.text # <<"<">> THEN Panicked
             ELSE LET value == include_value(ts, i + 1,
                                 output \o include \o <<" ", "<">>)
                  IN  IF value.panicked THEN Panicked
                      ELSE Reached(value.output \o <<">", "\n">>, value.next)
      ELSE IF token.kind = "Literal"
        THEN Reached(output \o include \o <<" ">> \o token_to_string(token)
                       \o <<"\n">>, i + 1)
      ELSE Panicked

\* the loop of lib.rs, lines 122 to 139: the tokens of the keyword's line
RECURSIVE directive_line(_, _, _, _)
directive_line(ts, j, output, current_line) ==
  IF j > Len(ts) THEN Reached(output, j)
  ELSE IF ts[j].line = current_line
    THEN directive_line(ts, j + 1,
           output \o token_to_string(ts[j]) \o <<" ">>, current_line)
  ELSE Reached(output \o <<"\n">>, j)

\* lib.rs, lines 44 to 145: a `#` at position i
hash(ts, i, output, nightly) ==
  LET next == peek(ts, i + 1)
      out  == output \o <<"\n", "#">>
  IN  IF next.kind = "Ident" /\ next.text = include
        THEN include_directive(ts, i + 2, out)
      ELSE IF next.kind = "Ident" /\ next.text \in DirectiveKeywords
        THEN IF ~nightly THEN Panicked
             ELSE directive_line(ts, i + 2, out \o next.text \o <<" ">>, next.line)
      ELSE Reached(out, i + 1)

\* lib.rs, lines 170 to 195: the text of a group around the text of its stream
wrap(delimiter, group_output) ==
  IF delimiter = "Parenthesis" THEN <<"(">> \o group_output \o <<")">>
  ELSE IF delimiter = "Brace"
    THEN <<"{", "\n">> \o group_output \o <<"\n", "}", "\n">>
  ELSE IF delimiter = "Bracket" THEN <<"[">> \o group_output \o <<"]">>
  ELSE group_output

\* the loop of `reconstruct` (lib.rs, lines 38 to 208) from position i on
RECURSIVE reconstruct_from(_, _, _, _)
reconstruct_from(ts, i, output, nightly) ==
  IF i > Len(ts) THEN Reached(output, i)
  ELSE
    LET token == ts[i]
    IN  IF token.kind = "Punct"
          THEN IF token.text = <<"#">>
                 THEN LET directive == hash(ts, i, output, nightly)
                      IN  IF directive.panicked THEN Panicked
                          ELSE reconstruct_from(ts, directive.next,
                                                directive.output, nightly)
               ELSE IF token.text = <<";">>
                 THEN reconstruct_from(ts, i + 1, output \o <<";", "\n">>, nightly)
               ELSE reconstruct_from(ts, i + 1,
                      output \o token.text
                        \o (IF token.spacing = "Alone" THEN <<" ">> ELSE <<>>),
                      nightly)
        ELSE IF token.kind = "Ident"
          THEN reconstruct_from(ts, i + 1, output \o token.text \o <<" ">>, nightly)
        ELSE IF token.kind = "Group"
          THEN LET group_output == reconstruct_from(token.stream, 1, <<>>, nightly)
               IN  IF group_output.panicked THEN Panicked
                   ELSE reconstruct_from(ts, i + 1,
                          output \o wrap(token.delimiter, group_output.output),
                          nightly)
        ELSE reconstruct_from(ts, i + 1,
               output \o token_to_string(token)
                 \o (IF token_to_string(token) = <<"\"", "C", "\"">>
                       THEN <<" ">> ELSE <<>>),
               nightly)

\* fn reconstruct(input: TokenStream) -> String
reconstruct(input, nightly) == reconstruct_from(input, 1, <<>>, nightly)

(***************************************************************************)
(* The macros over many token streams.  A stream is what the tokenizer     *)
(* makes of a head followed by at most MaxTokens pieces; the line of a     *)
(* token is one more than the number of line breaks before it.             *)
(***************************************************************************)
\* a line break of the macro's input: no token, the next ones start a new line
LineBreak ==
  [kind |-> "LineBreak", text |-> <<>>, spacing |-> "Alone", delimiter |-> "None",
   stream |-> <<>>, line |-> 0]

Hash == Punct("#", "Alone", 0)

NameA == <<"a">>

LiteralC == <<"\"", "C", "\"">>

LiteralOne == <<"1">>

\* nothing, `# include`, `# include <`, `# include "C"`, `# define`, `# else` on
\* a line of its own, a lone `#`, and a literal other than "C" before a bracket
\* group and a group without delimiters
Heads ==
  { <<>>,
    <<Hash, Ident(include, 0)>>,
    <<Hash, Ident(include, 0), Punct("<", "Alone", 0)>>,
    <<Hash, Ident(include, 0), Literal(LiteralC, 0)>>,
    <<Hash, Ident(define, 0)>>,
    <<Hash, Ident(else, 0), LineBreak>>,
    <<Hash>>,
    <<Literal(LiteralOne, 0), Group("Bracket", <<Ident(NameA, 0)>>, 0),
      Group("None", <<Punct("-", "Joint", 0), Punct(">", "Alone", 0)>>, 0)>> }

\* the pieces that follow the head: an identifier, a Joint and two Alone
\* punctuations, `;`, a literal, a line break, `# include`, `(# define a)` and a
\* brace group that ends on the line after the one it begins on
Pieces ==
  { <<Ident(NameA, 0)>>,
    <<Punct(".", "Joint", 0)>>,
    <<Punct("<", "Alone", 0)>>,
    <<Punct(">", "Alone", 0)>>,
    <<Punct(";", "Alone", 0)>>,
    <<Literal(LiteralC, 0)>>,
    <<LineBreak>>,
    <<Hash, Ident(include, 0)>>,
    <<Group("Parenthesis", <<Hash, Ident(define, 0), Ident(NameA, 0)>>, 0)>>,
    <<Group("Brace", <<Ident(NameA, 0), Punct(";", "Alone", 1)>>, 0)>> }

RECURSIVE PieceSeqs(_)
PieceSeqs(n) ==
  IF n = 0 THEN {<<>>}
  ELSE LET shorter == PieceSeqs(n - 1)
       IN  shorter \cup {s \o p : s \in shorter, p \in Pieces}

\* the token moved to the line l: its span, and the spans of the tokens in it
RECURSIVE AtLine(_, _)
AtLine(token, l) ==
  [token EXCEPT !.line = @ + l,
                !.stream = [k \in DOMAIN @ |-> AtLine(@[k], l)]]

\* the tokens of the pieces from line l on, the line breaks counted and dropped
RECURSIVE Layout(_, _)
Layout(ps, l) ==
  IF ps = <<>> THEN <<>>
  ELSE IF Head(ps).kind = "LineBreak" THEN Layout(Tail(ps), l + 1)
  ELSE <<AtLine(Head(ps), l)>> \o Layout(Tail(ps), l)

TokenStreams(n) == {Layout(h \o s, 1) : h \in Heads, s \in PieceSeqs(n)}

InitReconstruct ==
  /\ penv = EmptyMap
  /\ host = LinuxGnu
  /\ program = <<>>
  /\ pc = "tokens"
  /\ InitRest
  /\ tokens \in TokenStreams(MaxTokens)
  /\ cfg_nightly \in BOOLEAN

\* the expansion of a macro: the text of the tokens becomes the program text of
\* the call of `run` the macro expands to, unless `reconstruct` panics
expand(lang) ==
  LET input_as_string == reconstruct(tokens, cfg_nightly)
  IN  /\ pc = "tokens"
      /\ language' = lang
      /\ IF input_as_string.panicked
           THEN /\ pc' = "panicked"
                /\ result' = Panic
                /\ UNCHANGED program
           ELSE /\ pc' = "text"
                /\ program' = input_as_string.output
                /\ UNCHANGED result
      /\ UNCHANGED <<penv, host, cleaned, variables, options, fs, created,
                     kept_input, kept_output, compiler_command, compiler_spawns,
                     compiler_env, clang_output, handle, artifact_runs,
                     artifact_env, obstructed, drop_failed_at, tokens,
                     cfg_nightly>>

\* assert_c!
assert_c == expand("C")

\* assert_cxx!
assert_cxx == expand("Cxx")

NextReconstruct == assert_c \/ assert_cxx

SpecReconstruct == InitReconstruct /\ [][NextReconstruct]_vars

(***************************************************************************)
(* The claims.                                                             *)
(***************************************************************************)
Tracked == Range(handle.files_to_remove)

\* C1: on every exit path of the build, every temporary file the build created
\* and left on the filesystem is in the cleanup list of a Run Handle.
C1_EveryTempFileIsTracked ==
  pc # "idle" =>
    \A path \in created \cap fs : handle.state # "none" /\ path \in Tracked

\* C2: a disposal that completes leaves no tracked path on the filesystem,
\* whatever tracked paths were absent when it began, and a disposal fails only
\* at a tracked path that exists and cannot be removed, never at an absent one;
\* the paths before the failing one are gone.
C2_DisposalRemovesEveryTrackedPath ==
  /\ handle.state = "dropped" => Tracked \cap fs = {} /\ drop_failed_at = NoPath
  /\ handle.state = "panicked" =>
       /\ drop_failed_at \in Tracked \cap fs \cap obstructed
       /\ \A i \in 1..Len(handle.files_to_remove) :
            handle.files_to_remove[i] = drop_failed_at =>
              \A j \in 1..(i - 1) : handle.files_to_remove[j] \notin fs

\* a completed disposal of a handle that tracks the object path of an MSVC
\* build whose compiler never wrote it (the path was absent all along), with
\* the source file and the artifact removed
C2_Witness ==
  /\ handle.state = "dropped"
  /\ Len(handle.files_to_remove) = 3
  /\ handle.files_to_remove[3] \notin created
  /\ {handle.files_to_remove[1], handle.files_to_remove[2]} \subseteq created
  /\ artifact_runs > 0

\* C3 as stated: a build whose compiler ran spawned it exactly once, returns a
\* Run Handle exactly on a successful exit, and otherwise returns a
\* CompilationError carrying the captured standard error, with no handle and no
\* run of the artifact.
C3_HandleIffSuccessElseCompilationError ==
  clang_output.spawned =>
    /\ compiler_spawns = 1
    /\ clang_output.success <=> (result.kind = "Ok" /\ handle.state # "none")
    /\ ~clang_output.success =>
         /\ result = CompilationError(clang_output.stderr)
         /\ handle.state = "none"
         /\ artifact_runs = 0

\* C3 amended: the compiler is spawned at most once; the build returns a Run
\* Handle exactly when that process ran and exited with success; on an
\* unsuccessful exit it returns a CompilationError with the captured standard
\* error when those bytes are valid UTF-8 and panics when they are not; without
\* a success there is no handle and the artifact is never run.
C3_HandleIffSuccess ==
  /\ compiler_spawns <= 1
  /\ (result.kind = "Ok") <=> (clang_output.spawned /\ clang_output.success)
  /\ result.kind = "Ok" => compiler_spawns = 1 /\ handle.state # "none"
  /\ (clang_output.spawned /\ ~clang_output.success) =>
       /\ compiler_spawns = 1
       /\ Utf8Valid(clang_output.stderr) =>
            result = CompilationError(clang_output.stderr) /\ pc = "returned"
       /\ ~Utf8Valid(clang_output.stderr) => result = Panic /\ pc = "panicked"
  /\ (pc # "idle" /\ result.kind # "Ok") => handle.state = "none" /\ artifact_runs = 0

\* a failed compilation whose non-ASCII diagnostic came back verbatim
C3_Witness ==
  /\ clang_output.spawned
  /\ ~clang_output.success
  /\ result.error = "CompilationError"
  /\ result.text = <<195, 169>>
  /\ compiler_spawns = 1

(***************************************************************************)
(* The directive forms, stated on the text itself.                         *)
(***************************************************************************)
\* t[i..j] reads #inline_c_rs KEY:<white space>"VALUE" with the colon at c and
\* the opening quote at q; KEY is not empty and holds no colon, line feed or
\* carriage return, VALUE is not empty and holds no double quote
IsValueDirective(t, i, c, q, j) ==
  /\ HasAt(t, i, Marker)
  /\ c > i + Len(Marker) /\ c < q /\ q + 1 < j /\ j <= Len(t)
  /\ t[c] = ":" /\ t[q] = "\"" /\ t[j] = "\""
  /\ \A k \in (i + Len(Marker))..(c - 1) : t[k] \notin {":", "\n", "\r"}
  /\ \A k \in (c + 1)..(q - 1) : t[k] \in WhiteSpace
  /\ \A k \in (q + 1)..(j - 1) : t[k] # "\""

\* the value directives of t, each as <<i, c, q, j>>
ValueDirectives(t) ==
  UNION { UNION { UNION { {<<i, c, q, j>> : j \in {x \in (q + 2)..Len(t) :
                                                  IsValueDirective(t, i, c, q, x)}}
                          : q \in {x \in (c + 1)..Len(t) : t[x] = "\""} }
                  : c \in {x \in (i + Len(Marker) + 1)..Len(t) : t[x] = ":"} }
          : i \in {x \in 1..Len(t) : HasAt(t, x, Marker)} }

KeyOf(t, d) == SubSeq(t, d[1] + Len(Marker), d[2] - 1)

ValueOf(t, d) == SubSeq(t, d[3] + 1, d[4] - 1)

\* the directives that do not begin inside a directive that begins earlier
FreeDirectives(t) ==
  LET D == ValueDirectives(t)
  IN  {d \in D : ~\E e \in D : e[1] < d[1] /\ e[4] >= d[1]}

Positions(ds) == UNION {d[1]..d[4] : d \in ds}

\* t without the characters at the positions in del
RECURSIVE Without(_, _, _)
Without(t, del, i) ==
  IF i > Len(t) THEN <<>>
  ELSE (IF i \in del THEN <<>> ELSE <<t[i]>>) \o Without(t, del, i + 1)

\* the option form #inline_c_rs WORD stands at position i of t
IsOptionDirective(t, i) ==
  /\ HasAt(t, i, Marker)
  /\ i + Len(Marker) <= Len(t)
  /\ t[i + Len(Marker)] \in WordChars

(***************************************************************************)
(* The claims about the extraction (specification SpecExtract).            *)
(***************************************************************************)
SourceKeys == {trim(m.name) : m \in Range(captures_iter("REGEX", program, 1))}

EnvKeys ==
  {split_off(n, Len(ENV_VAR_PREFIX)) : n \in {x \in DOMAIN penv : starts_with(x, ENV_VAR_PREFIX)}}

\* C4: the Variable Set holds exactly the prefixed environment variables
\* (prefix stripped) and the in-source value directives; a key set in the source
\* has the value of its last directive in textual order, whatever the
\* environment says, and any other key has the environment's value.
C4_LastWriterWins ==
  pc # "text" =>
    LET ms == captures_iter("REGEX", program, 1)
    IN  /\ DOMAIN variables = SourceKeys \cup EnvKeys
        /\ \A k \in DOMAIN variables :
             IF k \in SourceKeys
               THEN \E i \in 1..Len(ms) :
                      /\ trim(ms[i].name) = k
                      /\ variables[k] = ms[i].value
                      /\ \A j \in (i + 1)..Len(ms) : trim(ms[j].name) # k
               ELSE variables[k] = penv[ENV_VAR_PREFIX \o k]

\* the key K set by the environment to "e" and by two directives to "v" and then
\* to "w": the Variable Set holds "w"
C4_Witness ==
  /\ pc = "variables"
  /\ (ENV_VAR_PREFIX \o KeyK) \in DOMAIN penv
  /\ program = ValueDirective(KeyK, <<"v">>) \o <<"\n">>
                 \o Marker \o KeyK \o <<" ", ":", "\"", "w", "\"">>
  /\ KeyK \in DOMAIN variables
  /\ variables[KeyK] = <<"w">>

\* C5 as stated: for every #inline_c_rs KEY: "VALUE" in the input (KEY without
\* colon or line feed, VALUE without double quote) the Variable Set maps KEY to
\* VALUE and the directive's text does not occur in the cleaned text.
C5_EveryDirectiveIsExtracted ==
  pc = "variables" =>
    \A i \in 1..Len(program) : HasAt(program, i, Marker) =>
      \A c \in (i + Len(Marker) + 1)..Len(program), j \in 1..Len(program) :
        ( /\ j >= c + 3
          /\ program[c] = ":" /\ program[c + 1] = " " /\ program[c + 2] = "\""
          /\ program[j] = "\""
          /\ \A k \in (i + Len(Marker))..(c - 1) : program[k] \notin {":", "\n"}
          /\ \A k \in (c + 3)..(j - 1) : program[k] # "\"" )
        => LET key == SubSeq(program, i + Len(Marker), c - 1)
               value == SubSeq(program, c + 3, j - 1)
           IN  /\ key \in DOMAIN variables
               /\ variables[key] = value
               /\ ~contains(cleaned, SubSeq(program, i, j))

\* C5 amended: every value directive (KEY and VALUE not empty, KEY without
\* colon, line feed or carriage return, VALUE without double quote, any white
\* space between the colon and the quote) that does not begin inside a directive
\* beginning earlier has its KEY, trimmed, in the Variable Set, mapped to its
\* VALUE unless a later directive has the same trimmed key; and the cleaned
\* text is the input with non-overlapping directives, among them all of those,
\* deleted and every other character kept in place.
C5_FreeDirectivesAreExtracted ==
  pc = "variables" =>
    LET D == ValueDirectives(program)
        F == FreeDirectives(program)
    IN  /\ \A d \in F :
             /\ trim(KeyOf(program, d)) \in DOMAIN variables
             /\ \/ variables[trim(KeyOf(program, d))] = ValueOf(program, d)
                \/ \E e \in D : /\ e[1] > d[1]
                                /\ trim(KeyOf(program, e)) = trim(KeyOf(program, d))
        /\ \E S \in SUBSET D :
             /\ F \subseteq S
             /\ \A d \in S, e \in S : d # e => (d[4] < e[1] \/ e[4] < d[1])
             /\ cleaned = Without(program, Positions(S), 1)

\* a directive with white space after its key, between other text
C5_Witness ==
  /\ pc = "variables"
  /\ program = <<" ">> \o KeyK \o Marker \o KeyK \o <<" ", ":", "\"", "w", "\"">>
                 \o <<" ">> \o KeyK
  /\ penv = EmptyMap
  /\ DOMAIN variables = {KeyK}
  /\ variables[KeyK] = <<"w">>
  /\ cleaned = <<" ", "K", " ", "K">>

\* C6: after the two passes neither directive form stands anywhere in the
\* cleaned text.
C6_NoDirectiveInCleanedText ==
  pc = "options" =>
    /\ ValueDirectives(cleaned) = {}
    /\ \A i \in 1..Len(cleaned) : ~IsOptionDirective(cleaned, i)

(***************************************************************************)
(* The claims about the compiler command (specification Spec).             *)
(***************************************************************************)
Windows == <<"w", "i", "n", "d", "o", "w", "s">>

Msvc == <<"m", "s", "v", "c">>

\* the target triple of the build: the TARGET variable, else the host
TargetTriple == IF TARGET \in DOMAIN variables THEN variables[TARGET] ELSE host

IsShared == SHARED \in Range(options)

\* the arguments that precede the flags: the tool's on the MSVC path, the input
\* path and the tool's on the other
FlagsOffset == IF contains(TargetTriple, Msvc) THEN Len(ToolArgs) ELSE 1 + Len(ToolArgs)

\* the flags of a key as the claim C7 has them: from the Variable Set, else from
\* the process environment
FlagsWithFallback(k) ==
  split_ascii_whitespace(IF k \in DOMAIN variables THEN variables[k]
                         ELSE IF k \in DOMAIN penv THEN penv[k] ELSE <<>>)

\* the flags of a key of the Variable Set
FlagsOfVariable(k) ==
  split_ascii_whitespace(IF k \in DOMAIN variables THEN variables[k] ELSE <<>>)

\* C7: the compiler command holds, after the leading arguments, the flags of
\* CFLAGS, CPPFLAGS and CXXFLAGS in this order, each split on white space, each
\* key read from the Variable Set or else from the process environment.
C7_FlagsFromVariablesElseEnvironment ==
  compiler_command.program # "none" =>
    LET claimed == FlagsWithFallback(CFLAGS) \o FlagsWithFallback(CPPFLAGS)
                     \o FlagsWithFallback(CXXFLAGS)
    IN  /\ Len(compiler_command.args) >= FlagsOffset + Len(claimed)
        /\ SubSeq(compiler_command.args, FlagsOffset + 1, FlagsOffset + Len(claimed))
             = StrArgs(claimed)

\* C8: the output path has the suffix .dll on a Windows target with SHARED,
\* .exe on a Windows target without, and none on any other target; the target
\* is the TARGET variable when the Variable Set has one, else the host triple.
C8_OutputSuffix ==
  kept_output # NoPath =>
    kept_output.suffix =
      (IF contains(TargetTriple, Windows) /\ IsShared THEN ".dll"
       ELSE IF contains(TargetTriple, Windows) THEN ".exe"
       ELSE "")

\* a shared build for the MinGW target named in the source, on a Linux host
C8_Witness ==
  /\ kept_output # NoPath
  /\ kept_output.suffix = ".dll"
  /\ host = LinuxGnu
  /\ TARGET \in DOMAIN variables
  /\ variables[TARGET] = WindowsGnu
  /\ IsShared

\* C9: the compiler command holds a shared-library flag exactly when SHARED was
\* extracted, right after the compiler flags: /LD when the target contains
\* both "windows" and "msvc", -shared otherwise; the LDFLAGS items of the
\* Variable Set follow it, each as -Wl,<item>, and there is no other -Wl,
\* argument.
C9_SharedFlagAndLinkerFlags ==
  compiler_command.program # "none" =>
    LET as == compiler_command.args
        n  == FlagsOffset + Len(FlagsOfVariable(CFLAGS)) + Len(FlagsOfVariable(CPPFLAGS))
                + Len(FlagsOfVariable(CXXFLAGS))
        ld == FlagsOfVariable(LDFLAGS)
        flag == IF contains(TargetTriple, Windows) /\ contains(TargetTriple, Msvc)
                  THEN StrArg(<<"/", "L", "D">>)
                  ELSE StrArg(<<"-", "s", "h", "a", "r", "e", "d">>)
        m  == IF IsShared THEN n + 1 ELSE n
    IN  /\ Len(as) >= m + Len(ld)
        /\ IsShared => as[n + 1] = flag
        /\ \A i \in 1..Len(as) :
             as[i] \in {StrArg(<<"/", "L", "D">>), StrArg(<<"-", "s", "h", "a", "r", "e", "d">>)}
               => IsShared /\ i = n + 1
        /\ \A i \in 1..Len(ld) : as[m + i] = StrArg(<<"-", "W", "l", ",">> \o ld[i])
        /\ \A i \in 1..Len(as) :
             starts_with(as[i].s, <<"-", "W", "l", ",">>) => i \in (m + 1)..(m + Len(ld))

\* a shared build for an MSVC target with two linker flags
C9_Witness ==
  /\ compiler_command.program # "none"
  /\ IsShared
  /\ TargetTriple = WindowsMsvc
  /\ compiler_command.args[FlagsOffset + 1] = StrArg(<<"/", "L", "D">>)
  /\ compiler_command.args[FlagsOffset + 2] = StrArg(<<"-", "W", "l", ",", "-", "L", ".">>)
  /\ compiler_command.args[FlagsOffset + 3] = StrArg(<<"-", "W", "l", ",", "-", "l", "m">>)

\* m agrees with env on every key of m
Carries(env, m) == \A k \in DOMAIN m : k \in DOMAIN env /\ env[k] = m[k]

\* C10: the compiler process, on the MSVC path and on the other, and every run
\* of the artifact get every key of the Variable Set with its value; the two
\* commands are given the same Variable Set.
C10_VariablesReachBothProcesses ==
  /\ compiler_command.program # "none" => compiler_command.env = variables
  /\ clang_output.spawned => Carries(compiler_env, variables)
  /\ handle.state # "none" => handle.command.env = variables
  /\ artifact_runs > 0 => Carries(artifact_env, variables)

\* a build off the MSVC path whose Variable Set holds a directive's CFLAGS and
\* overrides nothing else, with the artifact run twice
C10_Witness ==
  /\ ~contains(TargetTriple, Msvc)
  /\ clang_output.spawned
  /\ artifact_runs >= 2
  /\ CFLAGS \in DOMAIN variables
  /\ artifact_env[CFLAGS] = FlagsA
  /\ compiler_env[CFLAGS] = FlagsA

(***************************************************************************)
(* The claims on the token reconstructor (specification SpecReconstruct).  *)
(***************************************************************************)
IsPunct(token, ch) == token.kind = "Punct" /\ token.text = <<ch>>

IsIdent(token, text) == token.kind = "Ident" /\ token.text = text

\* the tokens i..k of the stream are `#`, `include`, `<`, name tokens, `>`: the
\* name tokens are identifiers and punctuations other than `>`
IsAngleInclude(ts, i, k) ==
  /\ i >= 1 /\ i + 3 <= k /\ k <= Len(ts)
  /\ IsPunct(ts[i], "#")
  /\ IsIdent(ts[i + 1], include)
  /\ IsPunct(ts[i + 2], "<")
  /\ IsPunct(ts[k], ">")
  /\ \A j \in (i + 3)..(k - 1) :
       ts[j].kind = "Ident" \/ (ts[j].kind = "Punct" /\ ts[j].text # <<">">>)

\* the last token of the directive that the `#` at position j begins: the
\* first `>` of an angle-bracket include, the literal of a quoted include, the
\* last token on the line of a define, ifdef, else, endif or elif, and
\* otherwise the `#` itself
DirectiveEnd(ts, j) ==
  LET next == peek(ts, j + 1)
  IN  IF IsIdent(next, include)
        THEN IF IsPunct(peek(ts, j + 2), "<")
               THEN IF \E k \in (j + 3)..Len(ts) : IsPunct(ts[k], ">")
                      THEN CHOOSE k \in (j + 3)..Len(ts) :
                             /\ IsPunct(ts[k], ">")
                             /\ \A m \in (j + 3)..(k - 1) : ~IsPunct(ts[m], ">")
                      ELSE Len(ts)
               ELSE j + 2
      ELSE IF next.kind = "Ident" /\ next.text \in DirectiveKeywords
        THEN CHOOSE k \in (j + 1)..Len(ts) :
               /\ \A m \in (j + 2)..k : ts[m].line = next.line
               /\ k < Len(ts) => ts[k + 1].line # next.line
      ELSE j

\* the token at position i belongs to no directive that a `#` before it
\* begins: a `#` there begins a directive of its own
RECURSIVE InDirectivePosition(_, _)
InDirectivePosition(ts, i) ==
  \A j \in 1..(i - 1) :
    (IsPunct(ts[j], "#") /\ InDirectivePosition(ts, j)) => DirectiveEnd(ts, j) < i

\* the texts of the tokens a..b, one after the other
RECURSIVE Concatenation(_, _, _)
Concatenation(ts, a, b) ==
  IF a > b THEN <<>> ELSE ts[a].text \o Concatenation(ts, a + 1, b)

\* the text of the tokens before the `#` at position i: the text of the stream
\* cut after that `#`, without the newline and the `#` that end it
TextBefore(ts, i) ==
  LET cut == reconstruct(SubSeq(ts, 1, i), cfg_nightly).output
  IN  SubSeq(cut, 1, Len(cut) - 2)

\* the text of the tokens after position k
TextAfter(ts, k) == reconstruct(SubSeq(ts, k + 1, Len(ts)), cfg_nightly).output

\* C11 as stated: the text of an angle-bracket include is exactly
\* `#include <NAME>` and one newline, NAME the name tokens without a space.
C11_IncludeTextIsExact ==
  pc = "text" =>
    \A i \in 1..Len(tokens), k \in 1..Len(tokens) :
      (IsAngleInclude(tokens, i, k) /\ InDirectivePosition(tokens, i)) =>
        program = TextBefore(tokens, i)
                    \o <<"#">> \o include \o <<" ", "<">>
                    \o Concatenation(tokens, i + 3, k - 1) \o <<">", "\n">>
                    \o TextAfter(tokens, k)

\* C11 amended: when the reconstruction returns, an angle-bracket include that
\* is part of no earlier directive is a newline, then exactly `#include <NAME>`
\* and one newline, NAME the texts of the name tokens without a space, whatever
\* the spacing of the punctuations; the text of the tokens before it precedes
\* it and the text of the tokens after its `>` follows it.
C11_IncludeTextAfterNewline ==
  pc = "text" =>
    \A i \in 1..Len(tokens), k \in 1..Len(tokens) :
      (IsAngleInclude(tokens, i, k) /\ InDirectivePosition(tokens, i)) =>
        program = TextBefore(tokens, i)
                    \o <<"\n", "#">> \o include \o <<" ", "<">>
                    \o Concatenation(tokens, i + 3, k - 1) \o <<">", "\n">>
                    \o TextAfter(tokens, k)

\* an expanded include whose name holds an identifier, a Joint punctuation and
\* an Alone one
C11_Witness ==
  /\ pc = "text"
  /\ \E i \in 1..Len(tokens), k \in 1..Len(tokens) :
       /\ IsAngleInclude(tokens, i, k)
       /\ InDirectivePosition(tokens, i)
       /\ \E j \in (i + 3)..(k - 1) : tokens[j].kind = "Ident"
       /\ \E j \in (i + 3)..(k - 1) :
            tokens[j].kind = "Punct" /\ tokens[j].spacing = "Joint"
       /\ \E j \in (i + 3)..(k - 1) :
            tokens[j].kind = "Punct" /\ tokens[j].spacing = "Alone"

\* an expanded include that follows the line of an `#else`
C11_WitnessAfterDirective ==
  /\ pc = "text"
  /\ \E i \in 2..Len(tokens), k \in 1..Len(tokens) :
       /\ IsAngleInclude(tokens, i, k)
       /\ InDirectivePosition(tokens, i)
       /\ IsIdent(tokens[2], else)

\* the tokens from position i on are `#`, `include` and then a malformed rest:
\* the end of the stream, a punctuation other than `<`, a token that is
\* neither `<` nor a literal, or a `<` after which the stream ends or a token
\* that is neither a punctuation nor an identifier stands before any `>`
IsMalformedInclude(ts, i) ==
  /\ IsPunct(peek(ts, i), "#")
  /\ IsIdent(peek(ts, i + 1), include)
  /\ LET opener == peek(ts, i + 2)
     IN  \/ opener.kind = "None"
         \/ opener.kind = "Punct" /\ opener.text # <<"<">>
         \/ opener.kind \notin {"Punct", "Literal"}
         \/ /\ IsPunct(opener, "<")
            /\ \E m \in (i + 3)..(Len(ts) + 1) :
                 /\ peek(ts, m).kind \notin {"Punct", "Ident"}
                 /\ \A n \in (i + 3)..(m - 1) : ~IsPunct(ts[n], ">")

\* a malformed include stands somewhere in the stream
HasMalformedInclude(ts) == \E i \in 1..Len(ts) : IsMalformedInclude(ts, i)

\* a malformed include begins a directive of the stream, or of the stream of a
\* group that is part of no directive, at any depth
RECURSIVE HasMalformedIncludeDirective(_)
HasMalformedIncludeDirective(ts) ==
  \E i \in 1..Len(ts) :
    /\ InDirectivePosition(ts, i)
    /\ \/ IsMalformedInclude(ts, i)
       \/ ts[i].kind = "Group" /\ HasMalformedIncludeDirective(ts[i].stream)

\* C12 as stated: wherever `# include` is followed by a malformed rest, the
\* reconstruction aborts and no program text comes out of the expansion.
C12_MalformedIncludeAborts ==
  (pc # "tokens" /\ HasMalformedInclude(tokens)) =>
    pc = "panicked" /\ result = Panic /\ program = <<>>

\* C12 amended: when a malformed `# include` begins a directive (it is part of
\* no earlier directive of its stream, and so is every group around it), the
\* reconstruction aborts: the expansion panics, and no program text, partial
\* or whole, comes out of it.
C12_MalformedIncludeDirectiveAborts ==
  (pc # "tokens" /\ HasMalformedIncludeDirective(tokens)) =>
    pc = "panicked" /\ result = Panic /\ program = <<>>

\* an expansion aborted by an angle-bracket include that ends before its `>`,
\* after a well-formed quoted include, with line metadata available
C12_Witness ==
  /\ pc = "panicked"
  /\ cfg_nightly
  /\ Len(tokens) >= 6
  /\ tokens[3].kind = "Literal"
  /\ IsMalformedInclude(tokens, 4)
  /\ IsPunct(tokens[6], "<")
  /\ HasMalformedIncludeDirective(tokens)

\* the tokens at positions i and i+1 are `#` and one of define, ifdef, else,
\* elif, endif
IsKeywordDirective(ts, i) ==
  /\ IsPunct(peek(ts, i), "#")
  /\ peek(ts, i + 1).kind = "Ident"
  /\ peek(ts, i + 1).text \in DirectiveKeywords

\* the texts of the tokens a..b, each followed by a space
RECURSIVE SpacedTexts(_, _, _)
SpacedTexts(ts, a, b) ==
  IF a > b THEN <<>>
  ELSE token_to_string(ts[a]) \o <<" ">> \o SpacedTexts(ts, a + 1, b)

\* the line of the directive that begins at position i, without its end: a
\* newline, `#`, the keyword and a space, then the tokens on the keyword's
\* line, each followed by a space
DirectiveLineText(ts, i) ==
  <<"\n", "#">> \o ts[i + 1].text \o <<" ">>
    \o SpacedTexts(ts, i + 2, DirectiveEnd(ts, i))

\* in the text of the stream, and of the stream of every group that is part of
\* no directive, every directive of the define family is its line and a
\* newline, between the text of the tokens before it and the text of the
\* tokens after its line
RECURSIVE DirectiveLinesEndWithNewline(_, _)
DirectiveLinesEndWithNewline(ts, text) ==
  \A i \in 1..Len(ts) :
    InDirectivePosition(ts, i) =>
      /\ IsKeywordDirective(ts, i) =>
           text = TextBefore(ts, i) \o DirectiveLineText(ts, i) \o <<"\n">>
                    \o TextAfter(ts, DirectiveEnd(ts, i))
      /\ ts[i].kind = "Group" =>
           DirectiveLinesEndWithNewline(ts[i].stream,
             reconstruct(ts[i].stream, cfg_nightly).output)

\* the same with the newline only where a token of a later line follows the
\* directive in its stream
RECURSIVE DirectiveLinesEndAtLaterToken(_, _)
DirectiveLinesEndAtLaterToken(ts, text) ==
  \A i \in 1..Len(ts) :
    InDirectivePosition(ts, i) =>
      /\ IsKeywordDirective(ts, i) =>
           text = TextBefore(ts, i) \o DirectiveLineText(ts, i)
                    \o (IF DirectiveEnd(ts, i) < Len(ts) THEN <<"\n">> ELSE <<>>)
                    \o TextAfter(ts, DirectiveEnd(ts, i))
      /\ ts[i].kind = "Group" =>
           DirectiveLinesEndAtLaterToken(ts[i].stream,
             reconstruct(ts[i].stream, cfg_nightly).output)

\* a directive of the define family begins in the stream, or in the stream of
\* a group that is part of no directive, at any depth
RECURSIVE HasKeywordDirective(_)
HasKeywordDirective(ts) ==
  \E i \in 1..Len(ts) :
    /\ InDirectivePosition(ts, i)
    /\ \/ IsKeywordDirective(ts, i)
       \/ ts[i].kind = "Group" /\ HasKeywordDirective(ts[i].stream)

\* C13: with line metadata, a directive of the define family is the keyword
\* and a space, then the tokens on the keyword's line, each followed by a
\* space, then a newline, both before a token of a later line and at the end
\* of the input, so that no later token is on the directive's line; without
\* line metadata the reconstruction fails instead of giving a text.
C13_DirectiveLineEndsWithNewline ==
  /\ (pc = "text" /\ cfg_nightly) => DirectiveLinesEndWithNewline(tokens, program)
  /\ (pc # "tokens" /\ ~cfg_nightly /\ HasKeywordDirective(tokens)) =>
       pc = "panicked" /\ program = <<>>

\* what the code does: the newline is there only before a token of a later
\* line of the same stream
DirectiveLineAsBuilt ==
  /\ (pc = "text" /\ cfg_nightly) => DirectiveLinesEndAtLaterToken(tokens, program)
  /\ (pc # "tokens" /\ ~cfg_nightly /\ HasKeywordDirective(tokens)) =>
       pc = "panicked" /\ program = <<>>

\* the text of `(# define a)` followed by a token: `)` and the token are on
\* the line of the directive
AbsorbedIntoDirectiveLine ==
  /\ pc = "text"
  /\ cfg_nightly
  /\ Len(tokens) = 2
  /\ tokens[1].kind = "Group"
  /\ tokens[1].delimiter = "Parenthesis"
  /\ IsKeywordDirective(tokens[1].stream, 1)
  /\ tokens[2].kind = "Ident"
  /\ program = <<"(">> \o DirectiveLineText(tokens[1].stream, 1) \o <<")">>
                 \o tokens[2].text \o <<" ">>

(***************************************************************************)
(* The claim on the cleanup list of a successful build (specification      *)
(* Spec).                                                                  *)
(***************************************************************************)
\* the paths the compiler command names as outputs: the path after `-o`, and
\* the paths pushed onto `-Fo` and `-Fe`
WrittenPaths(command) ==
  {command.args[n + 1].p : n \in {m \in 1..(Len(command.args) - 1) :
                                    command.args[m] = StrArg(<<"-", "o">>)}}
    \cup {a.p : a \in {b \in Range(command.args) :
                         b.s \in {<<"-", "F", "o">>, <<"-", "F", "e">>}}}

\* the paths the compiler command names as the artifact: after `-o`, or on `-Fe`
ArtifactPaths(command) ==
  {command.args[n + 1].p : n \in {m \in 1..(Len(command.args) - 1) :
                                    command.args[m] = StrArg(<<"-", "o">>)}}
    \cup {a.p : a \in {b \in Range(command.args) : b.s = <<"-", "F", "e">>}}

\* the output path with `obj` for its extension
ObjectPath == [id |-> kept_output.id, suffix |-> ".obj"]

\* C14: after a successful build the cleanup list of the Run Handle is the
\* source file and the output artifact, and on an MSVC target also the output
\* path with the extension `obj`, and nothing else; every path the compiler
\* command names as an output (after `-o`, on `-Fo`, on `-Fe`) is in it; and
\* the path the handle exposes is the artifact path given to the compiler.
C14_CleanupListCoversCompilerOutputs ==
  result.kind = "Ok" =>
    /\ kept_input # NoPath /\ kept_output # NoPath /\ kept_input # kept_output
    /\ PathArg(kept_input) \in Range(compiler_command.args)
    /\ handle.files_to_remove =
         <<kept_input, kept_output>>
           \o (IF contains(TargetTriple, Msvc) THEN <<ObjectPath>> ELSE <<>>)
    /\ WrittenPaths(compiler_command) # {}
    /\ WrittenPaths(compiler_command) \subseteq Tracked
    /\ ArtifactPaths(compiler_command) = {kept_output}
    /\ handle.output_path = kept_output

\* a successful build for an MSVC target with a compiler that is not like
\* clang: the command names the object path on `-Fo` and the artifact on `-Fe`,
\* and the handle tracks both and the source file
C14_Witness ==
  /\ result.kind = "Ok"
  /\ handle.state = "live"
  /\ contains(TargetTriple, Msvc)
  /\ StrPathArg(<<"-", "F", "o">>, ObjectPath) \in Range(compiler_command.args)
  /\ StrPathArg(<<"-", "F", "e">>, kept_output) \in Range(compiler_command.args)
  /\ kept_output.suffix = ".dll"
  /\ Len(handle.files_to_remove) = 3
  /\ Tracked \subseteq fs

====
